---------------------------- MODULE Spec2Model ----------------------------
(***************************************************************************)
(* qaul.net: the CI pipeline descriptor (.gitlab-ci.yml) and the webgui    *)
(* route table (webgui/app/router.js).                                     *)
(*                                                                         *)
(* Both files are declarative.  Their content is transcribed below as      *)
(* data; the actions are the steps by which the consuming engine (the CI   *)
(* runner, the Ember router DSL) interprets the declared keys.             *)
(***************************************************************************)
EXTENDS Naturals, Sequences, FiniteSets

VARIABLES
    \* ---- pipeline run ----
    ref,          \* branch the pipeline runs on
    failing,      \* <<job, command index>> pairs whose command exits non-zero
    created,      \* TRUE once the pipeline's jobs have been instantiated
    status,       \* job -> "absent" | "created" | "running" | "success" | "failed" | "skipped"
    pc,           \* job -> index of the next script command (0 before the job starts)
    attempts,     \* job -> number of times the job was started
    execLog,      \* job -> sequence of command indexes executed, over all attempts
    ws,           \* job -> set of paths in the job's working tree
    cwd,          \* job -> shell working directory of the job's script
    cache,        \* cache key -> set of cached paths
    artifacts,    \* job -> set of artifact paths uploaded by the job
    deployed,     \* number of executions of the surge deployment command
    \* ---- route table ----
    registered,   \* TRUE once Router.map has registered its callback
    mapPos,       \* number of top-level this.route calls evaluated so far
    routes,       \* set of recognisable leaf routes built by the DSL
    declared,     \* set of full names of the routes declared by this.route
    mapped,       \* TRUE once the DSL has been generated (application started)
    currentURL,   \* last URL navigated to
    currentMatch  \* result of recognising currentURL

ciVars == <<ref, failing, created, status, pc, attempts, execLog, ws, cwd,
            cache, artifacts, deployed>>
routerVars == <<registered, mapPos, routes, declared, mapped, currentURL, currentMatch>>
vars == <<ciVars, routerVars>>

(***************************************************************************)
(* Bounds                                                                  *)
(***************************************************************************)
\* at most this many script commands exit non-zero in one pipeline run
MaxFailures == 2
\* URLs have at most this many path segments
MaxSegs == 3

(***************************************************************************)
(* .gitlab-ci.yml, transcribed                                             *)
(***************************************************************************)
\* variant: the first two stages declared in the other order
StagesSwapped == <<"build", "test", "publish">>
Stages == <<"test", "build", "publish">>

Jobs == {"build:nightly", "test_webgui", "build_webgui", "publish_webgui"}

\* the job's `stage:` key; "" when the job declares none
DeclaredStage(j) ==
    CASE j = "build:nightly"  -> ""
      [] j = "test_webgui"    -> "test"
      [] j = "build_webgui"   -> "build"
      [] j = "publish_webgui" -> "publish"

\* variant: stage-less jobs placed in stage build
DefaultStageBuild == "build"

\* a job without a `stage:` key is placed in stage test
DefaultStage == "test"

\* variant: build_webgui declared in stage test
StageOfFlat(j) == IF j \in {"build:nightly", "test_webgui", "build_webgui"} THEN "test" ELSE "publish"

StageOf(j) == IF DeclaredStage(j) = "" THEN DefaultStage ELSE DeclaredStage(j)

StageIndex(s) == CHOOSE i \in 1..Len(Stages) : Stages[i] = s

JobsOfStage(s) == {j \in Jobs : StageOf(j) = s}

EarlierJobs(j) == {k \in Jobs : StageIndex(StageOf(k)) < StageIndex(StageOf(j))}

\* variant: publish_webgui without its `only:` key
OnlyUnrestricted(j) == {}

\* the job's `only:` key: the refs it is restricted to; {} when it declares none
Only(j) == IF j = "publish_webgui" THEN {"master"} ELSE {}

\* the job's `image:` key
Image(j) ==
    CASE j = "build:nightly"  -> "rustlang/rust:nightly"
      [] j = "test_webgui"    -> "circleci/node:10-browsers"
      [] j = "build_webgui"   -> "node:10"
      [] j = "publish_webgui" -> "andthensome/alpine-surge-bash"

\* the job's `cache: key:`; "" when it declares no cache
CacheKey(j) == IF j \in {"test_webgui", "build_webgui"} THEN "yarn" ELSE ""

\* the job's `cache: paths:`
CachePaths(j) == IF j \in {"test_webgui", "build_webgui"} THEN {"webgui/.yarn"} ELSE {}

\* variant: build_webgui without its `artifacts:` key
ArtifactPathsNone(j) == {}

\* the job's `artifacts: paths:`
ArtifactPaths(j) == IF j = "build_webgui" THEN {"webgui/dist/"} ELSE {}

\* the job's `environment:` key; name "" when it declares none
Environment(j) ==
    IF j = "publish_webgui"
    THEN [name |-> "master", url |-> "http://qaul.surge.sh/"]
    ELSE [name |-> "", url |-> ""]

\* variants: `retry: 1` on every job; `allow_failure: true` on test_webgui
RetryOnce(j) == 1
AllowFailureTests(j) == j = "test_webgui"

\* no job declares `retry:`, `allow_failure:` or `when:`; these are the values
\* the keys take when absent
Retry(j) == 0
AllowFailure(j) == FALSE
When(j) == "on_success"

\* One script line: its text, the directory it changes to ("" if none), the
\* paths it needs in the working tree, the paths it creates, and whether it
\* publishes to the hosting service.
Cmd(text, cd, needs, makes, deploys) ==
    [text |-> text, cd |-> cd, needs |-> needs, makes |-> makes, deploys |-> deploys]

CdWebgui == Cmd("cd webgui", "webgui", {"webgui/"}, {}, FALSE)
YarnInstall ==
    Cmd("yarn install --pure-lockfile --cache-folder .yarn", "",
        {"webgui/"}, {"webgui/node_modules", "webgui/.yarn"}, FALSE)

\* the job's `script:` key
Script(j) ==
    CASE j = "build:nightly" ->
           << Cmd("cargo build", "", {}, {"target/"}, FALSE) >>
      [] j = "test_webgui" ->
           << CdWebgui, YarnInstall,
              Cmd("yarn run test", "", {"webgui/node_modules"}, {}, FALSE) >>
      [] j = "build_webgui" ->
           << CdWebgui, YarnInstall,
              Cmd("yarn run build --prod", "", {"webgui/node_modules"},
                  {"webgui/dist/"}, FALSE) >>
      [] j = "publish_webgui" ->
           << Cmd("cd webgui/dist/", "webgui/dist", {"webgui/dist/"}, {}, FALSE),
              Cmd("cp index.html 200.html", "", {"webgui/dist/"},
                  {"webgui/dist/200.html"}, FALSE),
              Cmd("surge --project . --domain qaul.surge.sh", "",
                  {"webgui/dist/"}, {}, TRUE) >>

\* every <<job, command index>> of the file
Commands == UNION {{<<j, i>> : i \in 1..Len(Script(j))} : j \in Jobs}

\* branches a pipeline may be created for
Refs == {"master", "develop", "feature"}

\* the tree a job starts from: the repository checkout
Checkout == {"webgui/", "Cargo.toml"}

Terminal == {"absent", "success", "failed", "skipped"}

\* the result of recognising a URL no route matches
NoMatch == [found |-> FALSE, leaf |-> "", handlers |-> <<>>, params |-> {}]

(***************************************************************************)
(* Pipeline run                                                            *)
(***************************************************************************)
\* a pipeline is about to be created for `ref`; the route table plays no part
InitPipeline ==
    /\ ref \in Refs
    /\ failing \in {f \in SUBSET Commands : Cardinality(f) <= MaxFailures}
    /\ created = FALSE
    /\ status = [j \in Jobs |-> "absent"]
    /\ pc = [j \in Jobs |-> 0]
    /\ attempts = [j \in Jobs |-> 0]
    /\ execLog = [j \in Jobs |-> <<>>]
    /\ ws = [j \in Jobs |-> {}]
    /\ cwd = [j \in Jobs |-> ""]
    /\ cache \in [{"yarn"} -> {{}, {"webgui/.yarn"}}]
    /\ artifacts = [j \in Jobs |-> {}]
    /\ deployed = 0
    /\ registered = FALSE
    /\ mapPos = 0
    /\ routes = {}
    /\ declared = {}
    /\ mapped = FALSE
    /\ currentURL = <<>>
    /\ currentMatch = NoMatch

\* `only:` decides which jobs the pipeline for `ref` contains
InPipeline(j, r) == Only(j) = {} \/ r \in Only(j)

CreatePipeline ==
    /\ ~created
    /\ created' = TRUE
    /\ status' = [j \in Jobs |-> IF InPipeline(j, ref) THEN "created" ELSE "absent"]
    /\ UNCHANGED <<ref, failing, pc, attempts, execLog, ws, cwd, cache, artifacts, deployed>>
    /\ UNCHANGED routerVars

\* every job of an earlier stage has finished
PriorDone(j) == \A k \in EarlierJobs(j) : status[k] \in Terminal

\* no job of an earlier stage failed (unless allowed to)
PriorOK(j) ==
    \A k \in EarlierJobs(j) :
        \/ status[k] \in {"success", "absent"}
        \/ status[k] = "failed" /\ AllowFailure(k)

CanStart(j) ==
    /\ created
    /\ status[j] = "created"
    /\ PriorDone(j)
    /\ (When(j) = "always" \/ PriorOK(j))

\* the tree a job starts with: checkout, restored cache, artifacts of the
\* successful jobs of earlier stages
StartTree(j) ==
    Checkout
    \cup (IF CacheKey(j) = "" THEN {} ELSE cache[CacheKey(j)])
    \cup UNION {artifacts[k] : k \in {e \in EarlierJobs(j) : status[e] = "success"}}

StartJob(j) ==
    /\ CanStart(j)
    /\ status' = [status EXCEPT ![j] = "running"]
    /\ pc' = [pc EXCEPT ![j] = 1]
    /\ attempts' = [attempts EXCEPT ![j] = @ + 1]
    /\ ws' = [ws EXCEPT ![j] = StartTree(j)]
    /\ cwd' = [cwd EXCEPT ![j] = ""]
    /\ UNCHANGED <<ref, failing, created, execLog, cache, artifacts, deployed>>
    /\ UNCHANGED routerVars

SkipJob(j) ==
    /\ created
    /\ status[j] = "created"
    /\ PriorDone(j)
    /\ When(j) = "on_success"
    /\ ~PriorOK(j)
    /\ status' = [status EXCEPT ![j] = "skipped"]
    /\ UNCHANGED <<ref, failing, created, pc, attempts, execLog, ws, cwd, cache, artifacts, deployed>>
    /\ UNCHANGED routerVars

\* the command exits zero
CommandOk(j, i) == Script(j)[i].needs \subseteq ws[j] /\ <<j, i>> \notin failing

RunCommand(j) ==
    /\ status[j] = "running"
    /\ pc[j] \in 1..Len(Script(j))
    /\ LET i == pc[j]
           c == Script(j)[i]
       IN  /\ execLog' = [execLog EXCEPT ![j] = Append(@, i)]
           /\ IF CommandOk(j, i)
              THEN /\ pc' = [pc EXCEPT ![j] = i + 1]
                   /\ ws' = [ws EXCEPT ![j] = @ \cup c.makes]
                   /\ cwd' = [cwd EXCEPT ![j] = IF c.cd = "" THEN @ ELSE c.cd]
                   /\ deployed' = IF c.deploys THEN deployed + 1 ELSE deployed
                   /\ UNCHANGED status
              ELSE /\ status' = [status EXCEPT ![j] =
                                    IF attempts[j] <= Retry(j) THEN "created" ELSE "failed"]
                   /\ pc' = [pc EXCEPT ![j] = 0]
                   /\ UNCHANGED <<ws, cwd, deployed>>
    /\ UNCHANGED <<ref, failing, created, attempts, cache, artifacts>>
    /\ UNCHANGED routerVars

\* after the last command: archive the cache, upload the artifacts, succeed
FinishJob(j) ==
    /\ status[j] = "running"
    /\ pc[j] = Len(Script(j)) + 1
    /\ status' = [status EXCEPT ![j] = "success"]
    /\ cache' = IF CacheKey(j) = "" THEN cache
                ELSE [cache EXCEPT ![CacheKey(j)] = CachePaths(j) \cap ws[j]]
    /\ artifacts' = [artifacts EXCEPT ![j] = ArtifactPaths(j) \cap ws[j]]
    /\ UNCHANGED <<ref, failing, created, pc, attempts, execLog, ws, cwd, deployed>>
    /\ UNCHANGED routerVars

NextCI ==
    \/ CreatePipeline
    \/ \E j \in Jobs : StartJob(j)
    \/ \E j \in Jobs : SkipJob(j)
    \/ \E j \in Jobs : RunCommand(j)
    \/ \E j \in Jobs : FinishJob(j)

SpecPipeline == InitPipeline /\ [][NextCI]_vars

(***************************************************************************)
(* webgui/app/router.js, transcribed                                       *)
(***************************************************************************)
\* one path segment: a literal, or a dynamic segment (":name")
Static(v) == [dyn |-> FALSE, val |-> v]
Dynamic(n) == [dyn |-> TRUE, val |-> n]

\* one this.route(name, { path }, callback) call; hasPath and hasCallback say
\* which of the optional arguments are given
Route(name, hasPath, path, hasCallback, children) ==
    [name |-> name, hasPath |-> hasPath, path |-> path,
     hasCallback |-> hasCallback, children |-> children]

\* variant: files declared with { path: '/feed' }
RouterMapClash ==
    << Route("feed", FALSE, <<>>, FALSE, <<>>),
       Route("users", FALSE, <<>>, TRUE,
             << Route("user", TRUE, << Dynamic("user_id") >>, FALSE, <<>>) >>),
       Route("files", TRUE, << Static("feed") >>, FALSE, <<>>),
       Route("settings", FALSE, <<>>, FALSE, <<>>) >>

\* variant: user declared without its { path } option
RouterMapNoParam ==
    << Route("feed", FALSE, <<>>, FALSE, <<>>),
       Route("users", FALSE, <<>>, TRUE,
             << Route("user", FALSE, <<>>, FALSE, <<>>) >>),
       Route("files", FALSE, <<>>, FALSE, <<>>),
       Route("settings", FALSE, <<>>, FALSE, <<>>) >>

\* the callback handed to Router.map
RouterMap ==
    << Route("feed", FALSE, <<>>, FALSE, <<>>),
       Route("users", FALSE, <<>>, TRUE,
             << Route("user", TRUE, << Dynamic("user_id") >>, FALSE, <<>>) >>),
       Route("files", FALSE, <<>>, FALSE, <<>>),
       Route("settings", FALSE, <<>>, FALSE, <<>>) >>

\* a route's own path: the `path` option, "/" + name when none is given
PathOf(c) == IF c.hasPath THEN c.path ELSE << Static(c.name) >>

\* a nested route's name is qualified by its parent's
FullName(parent, name) == IF parent = "" THEN name ELSE parent \o "." \o name

\* the recognisable (leaf) routes one this.route call adds below a parent with
\* full name pn, full path pp and handler chain ph; a route with a callback
\* gets an implicit index child at its own path
RECURSIVE LeafRoutes(_, _, _, _)
LeafRoutes(c, pn, pp, ph) ==
    LET fn == FullName(pn, c.name)
        fp == pp \o PathOf(c)
        fh == Append(ph, fn)
    IN  IF ~c.hasCallback
        THEN {[name |-> fn, path |-> fp, handlers |-> fh]}
        ELSE UNION {LeafRoutes(c.children[i], fn, fp, fh) : i \in DOMAIN c.children}
             \cup (IF \E i \in DOMAIN c.children : c.children[i].name = "index"
                   THEN {}
                   ELSE {[name |-> FullName(fn, "index"), path |-> fp,
                          handlers |-> Append(fh, FullName(fn, "index"))]})

\* the routes one this.route call declares: full name, parent, own path
RECURSIVE DeclaredRoutes(_, _)
DeclaredRoutes(c, pn) ==
    LET fn == FullName(pn, c.name)
    IN  {[name |-> fn, parent |-> pn, path |-> PathOf(c)]}
        \cup UNION {DeclaredRoutes(c.children[i], fn) : i \in DOMAIN c.children}

\* segments a URL may be made of, and the URLs navigated to
Segments == {"feed", "users", "files", "settings", "42", "index"}
URLs == UNION {[1..n -> Segments] : n \in 0..MaxSegs}

\* a route path matches a URL segment by segment; a dynamic segment matches
\* any segment
Matches(path, url) ==
    /\ Len(path) = Len(url)
    /\ \A i \in DOMAIN path : path[i].dyn \/ path[i].val = url[i]

\* the dynamic segments' bindings
Params(path, url) == {<<path[i].val, url[i]>> : i \in {k \in DOMAIN path : path[k].dyn}}

StaticCount(path) == Cardinality({i \in DOMAIN path : ~path[i].dyn})

\* recognise a URL against a route set: the most specific matching route
Recognize(rs, url) ==
    LET ms == {r \in rs : Matches(r.path, url)}
    IN  IF ms = {} THEN NoMatch
        ELSE LET r == CHOOSE m \in ms :
                          \A o \in ms : StaticCount(m.path) >= StaticCount(o.path)
             IN  [found |-> TRUE, leaf |-> r.name, handlers |-> r.handlers,
                  params |-> Params(r.path, url)]

(***************************************************************************)
(* Application start and navigation                                        *)
(***************************************************************************)
\* module load is about to run Router.map; no pipeline is involved
InitRouter ==
    /\ registered = FALSE
    /\ mapPos = 0
    /\ routes = {}
    /\ declared = {}
    /\ mapped = FALSE
    /\ currentURL = <<>>
    /\ currentMatch = NoMatch
    /\ ref = "master"
    /\ failing = {}
    /\ created = FALSE
    /\ status = [j \in Jobs |-> "absent"]
    /\ pc = [j \in Jobs |-> 0]
    /\ attempts = [j \in Jobs |-> 0]
    /\ execLog = [j \in Jobs |-> <<>>]
    /\ ws = [j \in Jobs |-> {}]
    /\ cwd = [j \in Jobs |-> ""]
    /\ cache = [k \in {"yarn"} |-> {}]
    /\ artifacts = [j \in Jobs |-> {}]
    /\ deployed = 0

\* Router.map(callback): the callback is registered, once, at module load
RouterMapCall ==
    /\ ~registered
    /\ registered' = TRUE
    /\ UNCHANGED <<mapPos, routes, declared, mapped, currentURL, currentMatch>>
    /\ UNCHANGED ciVars

\* the next top-level this.route call of the callback, its nested callback included
DslRoute ==
    /\ registered
    /\ ~mapped
    /\ mapPos < Len(RouterMap)
    /\ LET c == RouterMap[mapPos + 1]
       IN  /\ routes' = routes \cup LeafRoutes(c, "", <<>>, <<>>)
           /\ declared' = declared \cup DeclaredRoutes(c, "")
    /\ mapPos' = mapPos + 1
    /\ UNCHANGED <<registered, mapped, currentURL, currentMatch>>
    /\ UNCHANGED ciVars

\* the callback has returned: the top level gets its implicit index route and
\* the table is handed to the recogniser
DslGenerate ==
    /\ registered
    /\ ~mapped
    /\ mapPos = Len(RouterMap)
    /\ routes' = routes \cup
                 (IF \E d \in declared : d.parent = "" /\ d.name = "index"
                  THEN {}
                  ELSE {[name |-> "index", path |-> <<>>, handlers |-> <<"index">>]})
    /\ mapped' = TRUE
    /\ UNCHANGED <<registered, mapPos, declared, currentURL, currentMatch>>
    /\ UNCHANGED ciVars

\* variant: a navigation that matches nothing registers the URL as a route
NavigateLearning(url) ==
    /\ mapped
    /\ currentURL' = url
    /\ currentMatch' = Recognize(routes, url)
    /\ routes' = IF Recognize(routes, url).found THEN routes
                 ELSE routes \cup {[name |-> "unknown", path |-> [i \in DOMAIN url |-> Static(url[i])],
                                     handlers |-> <<"unknown">>]}
    /\ UNCHANGED <<registered, mapPos, declared, mapped>>
    /\ UNCHANGED ciVars

\* a navigation: the URL is looked up in the table
Navigate(url) ==
    /\ mapped
    /\ currentURL' = url
    /\ currentMatch' = Recognize(routes, url)
    /\ UNCHANGED <<registered, mapPos, routes, declared, mapped>>
    /\ UNCHANGED ciVars

NextRouter ==
    \/ RouterMapCall
    \/ DslRoute
    \/ DslGenerate
    \/ \E url \in URLs : Navigate(url)

SpecRouter == InitRouter /\ [][NextRouter]_vars

(***************************************************************************)
(* Properties of the pipeline                                              *)
(***************************************************************************)
Started(j) == attempts[j] > 0
Finished(j) == status[j] \in Terminal
Running(j) == status[j] = "running"

\* C1: stages run in the order test, build, publish: build_webgui does not
\* start before every job of stage test has finished, publish_webgui does not
\* start before every job of stage build has finished, and in general no job
\* has started while a job of an earlier stage is unfinished.
C1_StageOrder ==
    /\ Started("build_webgui") => \A j \in JobsOfStage("test") : created /\ Finished(j)
    /\ Started("publish_webgui") => \A j \in JobsOfStage("build") : created /\ Finished(j)
    /\ Started("build_webgui") => created /\ Finished("test_webgui")
    /\ Started("publish_webgui") => created /\ Finished("build_webgui")

\* all three stages have been entered in one run
C1_Witness == Running("publish_webgui") /\ status["test_webgui"] = "success"

\* C2: on a branch other than master publish_webgui is not part of the
\* pipeline and none of its commands (the surge deployment in particular) is
\* executed; test_webgui and build_webgui are part of the pipeline of every
\* branch.
C2_PublishOnlyOnMaster ==
    /\ ref # "master" =>
          /\ status["publish_webgui"] = "absent"
          /\ ~Started("publish_webgui")
          /\ execLog["publish_webgui"] = <<>>
          /\ deployed = 0
    /\ created => status["test_webgui"] # "absent" /\ status["build_webgui"] # "absent"

\* a run on another branch got through stage build, and nothing was published
C2_Witness ==
    /\ ref # "master"
    /\ status["build_webgui"] = "success"
    /\ status["test_webgui"] = "success"

\* C6: each job is started at most once, its commands run in their listed
\* order, each at most once, and a job that failed stays failed with the
\* failing command as the last one it executed.
C6_NoRetry ==
    \A j \in Jobs :
        /\ attempts[j] <= 1
        /\ Len(execLog[j]) <= Len(Script(j))
        /\ \A i \in DOMAIN execLog[j] : execLog[j][i] = i
        /\ status[j] = "failed" =>
              /\ execLog[j] # <<>>
              /\ ~CommandOk(j, Len(execLog[j]))
              /\ pc[j] = 0

\* a job failed at its third command
C6_Witness == \E j \in Jobs : status[j] = "failed" /\ Len(execLog[j]) = 3

\* the result the commands' exit codes give a job of the first two stages
ResultOf(j) == IF \E i \in 1..Len(Script(j)) : <<j, i>> \in failing THEN "failed" ELSE "success"
\* the commands a job runs: up to and including its first failing one
RunOf(j) ==
    LET bad == {i \in 1..Len(Script(j)) : <<j, i>> \in failing}
    IN  IF bad = {} THEN [i \in 1..Len(Script(j)) |-> i]
        ELSE [i \in 1..(CHOOSE m \in bad : \A o \in bad : m <= o) |-> i]

\* C7: whatever the interleaving of build:nightly and test_webgui, each ends
\* with the result and the executed commands its own exit codes give, and
\* build_webgui runs exactly when both succeeded; jobs of different stages are
\* never running at the same time.
C7_InterleavingIrrelevant ==
    /\ \A j \in {"build:nightly", "test_webgui", "build_webgui"} :
          status[j] \in {"success", "failed"} =>
             status[j] = ResultOf(j) /\ execLog[j] = RunOf(j)
    /\ Started("build_webgui") =>
          ResultOf("build:nightly") = "success" /\ ResultOf("test_webgui") = "success"
    /\ status["build_webgui"] = "skipped" =>
          ResultOf("build:nightly") = "failed" \/ ResultOf("test_webgui") = "failed"
    /\ \A j \in {"build:nightly", "test_webgui"} :
          ~(Running(j) /\ Running("build_webgui")) /\ ~(Running(j) /\ Running("publish_webgui"))
    /\ ~(Running("build_webgui") /\ Running("publish_webgui"))

\* build:nightly has failed while test_webgui is in the middle of its script
C7_Witness ==
    /\ status["build:nightly"] = "failed"
    /\ Running("test_webgui")
    /\ pc["test_webgui"] = 2

\* C8: every job is in exactly one declared stage; build:nightly, which
\* declares none, is in stage test, so build_webgui starts only after its
\* cargo build has run and succeeded.
C8_DefaultStage ==
    /\ \A j \in Jobs : Cardinality({i \in DOMAIN Stages : Stages[i] = StageOf(j)}) = 1
    /\ DeclaredStage("build:nightly") = ""
    /\ StageOf("build:nightly") = "test"
    /\ "build:nightly" \in JobsOfStage("test") /\ "build:nightly" \notin JobsOfStage("build")
    /\ Started("build_webgui") =>
          status["build:nightly"] = "success" /\ execLog["build:nightly"] = <<1>>

\* build:nightly runs alongside test_webgui
C8_Witness ==
    /\ Running("build:nightly")
    /\ Running("test_webgui")
    /\ pc["test_webgui"] = 3

\* C9: publish_webgui starts, and the surge deployment is executed, only in
\* a run in which build:nightly, test_webgui and build_webgui all succeeded.
C9_FailureStopsPublish ==
    /\ (Started("publish_webgui") \/ deployed > 0) =>
          \A j \in {"build:nightly", "test_webgui", "build_webgui"} : status[j] = "success"
    /\ (\E j \in {"build:nightly", "test_webgui", "build_webgui"} : status[j] = "failed") =>
          ~Started("publish_webgui") /\ execLog["publish_webgui"] = <<>> /\ deployed = 0

\* on master, a failure in stage test left build and publish unexecuted
C9_Witness ==
    /\ ref = "master"
    /\ status["test_webgui"] = "failed"
    /\ status["build_webgui"] = "skipped"
    /\ status["publish_webgui"] = "skipped"

\* C10: whenever publish_webgui has started, build_webgui succeeded in the
\* same run, uploaded webgui/dist/ as its artifact, and webgui/dist/ is in
\* publish_webgui's working tree.
C10_PublishHasDist ==
    Started("publish_webgui") =>
        /\ status["build_webgui"] = "success"
        /\ execLog["build_webgui"] = <<1, 2, 3>>
        /\ "webgui/dist/" \in artifacts["build_webgui"]
        /\ "webgui/dist/" \in ws["publish_webgui"]

\* the deployment ran
C10_Witness == deployed = 1 /\ status["publish_webgui"] = "success"

(***************************************************************************)
(* Properties of the route table                                           *)
(***************************************************************************)
\* the declared route a recognised URL belongs to: the innermost declared
\* handler ("" when the URL matches no declared route)
DeclaredOf(m) ==
    LET ds == {i \in DOMAIN m.handlers : \E d \in declared : d.name = m.handlers[i]}
    IN  IF ds = {} THEN "" ELSE m.handlers[CHOOSE i \in ds : \A k \in ds : i >= k]

Resolve(url) ==
    LET m == Recognize(routes, url)
    IN  [route |-> DeclaredOf(m), params |-> m.params]

\* the five paths
ExpectedRoute(url) ==
    CASE url = <<"feed">>     -> [route |-> "feed", params |-> {}]
      [] url = <<"users">>    -> [route |-> "users", params |-> {}]
      [] url = <<"files">>    -> [route |-> "files", params |-> {}]
      [] url = <<"settings">> -> [route |-> "settings", params |-> {}]
      [] Len(url) = 2 /\ url[1] = "users" ->
             [route |-> "users.user", params |-> {<<"user_id", url[2]>>}]
      [] OTHER -> [route |-> "", params |-> {}]

\* C3: once the table is built, /feed, /users, /users/<segment>, /files and
\* /settings resolve to feed, users, users.user (user_id bound to the
\* segment), files and settings, and every other URL of the test set matches
\* no declared route; the route a navigation lands on is the expected one.
C3_RouteTable ==
    mapped =>
        /\ \A url \in URLs : Resolve(url) = ExpectedRoute(url)
        /\ {d.name : d \in declared} = {"feed", "users", "users.user", "files", "settings"}
        /\ currentMatch.found =>
              [route |-> DeclaredOf(currentMatch), params |-> currentMatch.params]
                 = ExpectedRoute(currentURL)

\* a navigation to /users/42 landed on users.user
C3_Witness ==
    /\ mapped
    /\ currentURL = <<"users", "42">>
    /\ currentMatch.leaf = "users.user"
    /\ currentMatch.params = {<<"user_id", "42">>}

\* the declared routes a URL matches
DeclaredMatches(url) ==
    {DeclaredOf([handlers |-> r.handlers]) : r \in {x \in routes : Matches(x.path, url)}} \ {""}

\* C4: at every moment of the table's construction and afterwards, no two
\* routes declared under the same parent have the same path, no two
\* recognisable routes have the same full path, and every URL matches at most
\* one declared route.
C4_UniquePaths ==
    /\ \A a, b \in declared : (a.parent = b.parent /\ a.path = b.path) => a = b
    /\ \A a, b \in routes : a.path = b.path => a = b
    /\ \A url \in URLs : Cardinality(DeclaredMatches(url)) <= 1
    /\ DeclaredMatches(<<"users">>) \cap DeclaredMatches(<<"users", "42">>) = {}

\* /users and /users/users each match one route, and not the same one
C4_Witness ==
    /\ mapped
    /\ DeclaredMatches(<<"users">>) = {"users"}
    /\ DeclaredMatches(<<"users", "users">>) = {"users.user"}
    /\ currentURL = <<"users", "users">>

=============================================================================
